---- MODULE Spec2Model ----
(***************************************************************************)
(* Availability computation and cache consistency of the events module:    *)
(* AvailabilityCalculator (backend/events/utils.py), the booking handlers  *)
(* of the same file, and the signal handlers that invalidate the cache     *)
(* (apps/availability/signals.py, apps/users/signals.py).                  *)
(*                                                                         *)
(* Instants of the booking calendar are minutes since midnight of date 0;  *)
(* the wall clock `now` is in seconds.  Database rows are records; the     *)
(* cache table is a function from its unique key to the row.               *)
(***************************************************************************)
EXTENDS Integers, Sequences, FiniteSets, TLC

\* ------------------------------------------------------------------ bounds
MaxDate == 2        \* dates are 1..MaxDate
MaxBookings == 2    \* booking rows that can ever be created
MaxTicks == 1       \* clock ticks, each of one cache timeout
NumQueries == 1     \* concurrent get_available_slots callers
NumReschedulers == 2 \* concurrent handle_booking_rescheduling callers
NumTxns == 1        \* concurrent write transactions of the signal senders
MaxExceptions == 1  \* RecurringEventException rows that can ever be saved
MinInstant == 0     \* datetime.min on the scale of the model, in minutes
NumUsers == 2       \* User rows
NumDeleters == 2    \* concurrent process_account_deletion workers
MaxQueued == 2      \* queued process_account_deletion tasks per user id

\* --------------------------------------------------------------- fixtures
Organizers == {"o1", "o2", "o3"}

\* Profile.reasonable_hours_start / reasonable_hours_end of each organizer.
ProfileHours ==
    [o1 |-> [reasonable_hours_start |-> 9, reasonable_hours_end |-> 10],
     o2 |-> [reasonable_hours_start |-> 9, reasonable_hours_end |-> 10],
     o3 |-> [reasonable_hours_start |-> 9, reasonable_hours_end |-> 17]]

\* EventType rows: e1 single-attendee and e2 group of organizer o1, e3
\* single-attendee of organizer o2; e4 a weekly recurring type; e5 with no
\* slot interval, e6 with no duration, e8 longer than the working window and
\* e9 with slots every 15 minutes; e7 of organizer o3, who works 09:00-17:00;
\* e10 with a negative slot interval and e11 with a negative duration.
EventTypes ==
    [e1 |-> [organizer |-> "o1", duration |-> 30, slot_interval_minutes |-> 30,
             max_attendees |-> 1, recurrence_type |-> "none"],
     e2 |-> [organizer |-> "o1", duration |-> 30, slot_interval_minutes |-> 30,
             max_attendees |-> 2, recurrence_type |-> "none"],
     e3 |-> [organizer |-> "o2", duration |-> 30, slot_interval_minutes |-> 30,
             max_attendees |-> 1, recurrence_type |-> "none"],
     e4 |-> [organizer |-> "o1", duration |-> 30, slot_interval_minutes |-> 30,
             max_attendees |-> 1, recurrence_type |-> "weekly"],
     e5 |-> [organizer |-> "o1", duration |-> 30, slot_interval_minutes |-> 0,
             max_attendees |-> 1, recurrence_type |-> "none"],
     e6 |-> [organizer |-> "o1", duration |-> 0, slot_interval_minutes |-> 30,
             max_attendees |-> 1, recurrence_type |-> "none"],
     e7 |-> [organizer |-> "o3", duration |-> 30, slot_interval_minutes |-> 30,
             max_attendees |-> 1, recurrence_type |-> "none"],
     e8 |-> [organizer |-> "o1", duration |-> 90, slot_interval_minutes |-> 30,
             max_attendees |-> 1, recurrence_type |-> "none"],
     e9 |-> [organizer |-> "o1", duration |-> 30, slot_interval_minutes |-> 15,
             max_attendees |-> 1, recurrence_type |-> "none"],
     e10 |-> [organizer |-> "o1", duration |-> 30, slot_interval_minutes |-> -30,
              max_attendees |-> 1, recurrence_type |-> "none"],
     e11 |-> [organizer |-> "o1", duration |-> -30, slot_interval_minutes |-> 30,
              max_attendees |-> 1, recurrence_type |-> "none"]]

EventTypeIds == DOMAIN EventTypes

\* the event types whose slot loop ends by its own condition: with a
\* negative interval current_time only moves away from end_time
GridTypes == {e \in EventTypeIds : EventTypes[e].slot_interval_minutes >= 0}
Dates == 1..MaxDate
BookingIds == 1..MaxBookings
QueryIds == 1..NumQueries
UserIds == 1 .. NumUsers
DeleterIds == 1 .. NumDeleters
ReschedIds == 1..NumReschedulers
TxnIds == 1..NumTxns
InviteeTimezones == {"UTC"}
ProfileTimezones == {"UTC", "Europe/Paris"}

\* settings.AVAILABILITY_CACHE_TIMEOUT, default, in seconds
CacheTimeout == 3600

MinutesPerDay == 24 * 60

\* datetime.combine(date, time(hour=h)), naive, in minutes
Combine(d, h) == d * MinutesPerDay + h * 60

\* offset from UTC of a pytz zone, in minutes
UtcOffset(tz) == IF tz = "UTC" THEN 0 ELSE 60

\* tz.localize(naive): the instant the naive wall time denotes in tz
Localize(tz, naive) == naive - UtcOffset(tz)

\* datetime.date() of an aware instant in its own zone
DateOf(tz, t) == (t + UtcOffset(tz)) \div MinutesPerDay

\* ------------------------------------------------------------------ state
VARIABLES
    now,        \* timezone.now(), seconds
    bookings,   \* Booking table: id -> row
    cache,      \* EventTypeAvailabilityCache table: unique key -> row
    profiles,   \* Profile table (committed): organizer -> [timezone_name]
    query,      \* get_available_slots calls in flight: worker -> frame
    resched,    \* handle_booking_rescheduling calls in flight: worker -> frame
    txn,        \* write transactions of the availability / users apps
    ev,         \* the step just taken and what it returned
    lastCall,   \* the last completed cached query, until the next mutation
    settled,    \* every cache row was computed from the tables as they are
    exceptions, \* RecurringEventException table: set of rows
    run,        \* a get_available_slots call followed loop by loop
    users,      \* User table: id -> row; a deleted row is absent
    deletion,   \* process_account_deletion runs: worker -> frame
    queue       \* process_account_deletion tasks queued: user id -> count

vars == <<now, bookings, cache, profiles, query, resched, txn, ev, lastCall,
          settled, exceptions, run, users, deletion, queue>>

\* ------------------------------------------------- AvailabilityCalculator
\* EventType.is_group_event()
is_group_event(e) == EventTypes[e].max_attendees > 1

\* EventType.can_book_on_date(date)
can_book_on_date(e, d) == d \in Dates

RECURSIVE SumAttendees(_, _)
SumAttendees(bks, ids) ==
    IF ids = {} THEN 0
    ELSE LET b == CHOOSE x \in ids : TRUE
         IN  bks[b].attendee_count + SumAttendees(bks, ids \ {b})

\* Booking.objects.filter(organizer=..., status='confirmed',
\*                        start_time__lt=end_time, end_time__gt=start_time)
ConflictingBookings(bks, e, start_time, end_time) ==
    {b \in DOMAIN bks :
        /\ bks[b].organizer = EventTypes[e].organizer
        /\ bks[b].status = "confirmed"
        /\ bks[b].start_time < end_time
        /\ bks[b].end_time > start_time}

_is_slot_available(bks, e, start_time, end_time, attendee_count) ==
    LET conflicting_bookings == ConflictingBookings(bks, e, start_time, end_time)
    IN  IF is_group_event(e)
        THEN SumAttendees(bks, conflicting_bookings) + attendee_count
                 <= EventTypes[e].max_attendees
        ELSE conflicting_bookings = {}

SlotIntervalAlways30(e) == 30

\* self.event_type.slot_interval_minutes or 30
SlotInterval(e) ==
    IF EventTypes[e].slot_interval_minutes = 0 THEN 30
    ELSE EventTypes[e].slot_interval_minutes

\* the while loop of _get_daily_slots, from current_time on
RECURSIVE DailyLoop(_, _, _, _, _)
DailyLoop(bks, e, attendee_count, current_time, end_time) ==
    IF current_time + EventTypes[e].duration <= end_time
    THEN LET slot_end_time == current_time + EventTypes[e].duration
             rest == DailyLoop(bks, e, attendee_count,
                               current_time + SlotInterval(e), end_time)
         IN  IF _is_slot_available(bks, e, current_time, slot_end_time, attendee_count)
             THEN <<[start_time |-> current_time,
                     end_time |-> slot_end_time,
                     duration_minutes |-> EventTypes[e].duration,
                     available_spots |-> EventTypes[e].max_attendees]>> \o rest
             ELSE rest
    ELSE <<>>

_get_daily_slots(bks, e, tz, date, attendee_count) ==
    LET hours == ProfileHours[EventTypes[e].organizer]
        current_time == Localize(tz, Combine(date, hours.reasonable_hours_start))
        end_time == Localize(tz, Combine(date, hours.reasonable_hours_end))
    IN  DailyLoop(bks, e, attendee_count, current_time, end_time)

\* the while loop of _calculate_availability, from current_date on
RECURSIVE CalcLoop(_, _, _, _, _, _)
CalcLoop(bks, e, tz, current_date, end_date, attendee_count) ==
    IF current_date <= end_date
    THEN (IF can_book_on_date(e, current_date)
          THEN _get_daily_slots(bks, e, tz, current_date, attendee_count)
          ELSE <<>>)
         \o CalcLoop(bks, e, tz, current_date + 1, end_date, attendee_count)
    ELSE <<>>

RECURSIVE CalculateAvailabilityDescending(_, _, _, _, _, _)
CalculateAvailabilityDescending(bks, e, tz, start_date, end_date, attendee_count) ==
    IF start_date <= end_date
    THEN (IF can_book_on_date(e, end_date)
          THEN _get_daily_slots(bks, e, tz, end_date, attendee_count)
          ELSE <<>>)
         \o CalculateAvailabilityDescending(bks, e, tz, start_date,
                                            end_date - 1, attendee_count)
    ELSE <<>>

_calculate_availability(bks, e, tz, start_date, end_date, attendee_count) ==
    CalcLoop(bks, e, tz, start_date, end_date, attendee_count)

\* RecurringEventException.objects: the rows of the table
RecurringExceptions == exceptions

\* _apply_recurring_logic returns its argument on every path
_apply_recurring_logic(slots, e, start_date, end_date) == slots

_apply_recurring_exceptions(slots, e, tz, start_date, end_date) ==
    IF EventTypes[e].recurrence_type = "none" THEN slots
    ELSE LET cancelled == {x.exception_date : x \in
                 {y \in RecurringExceptions :
                     /\ y.event_type = e
                     /\ y.exception_date >= start_date
                     /\ y.exception_date <= end_date
                     /\ y.exception_type = "cancelled"}}
             Keep(slot) == DateOf(tz, slot.start_time) \notin cancelled
         IN  SelectSeq(slots, Keep)

\* lines 147-154 of get_available_slots: the slots of an uncached computation
ComputeSlots(bks, e, tz, start_date, end_date, attendee_count) ==
    LET s1 == _calculate_availability(bks, e, tz, start_date, end_date, attendee_count)
        s2 == IF EventTypes[e].recurrence_type # "none"
              THEN _apply_recurring_logic(s1, e, start_date, end_date)
              ELSE s1
    IN  _apply_recurring_exceptions(s2, e, tz, start_date, end_date)

\* ------------------------------------------------------------ cache table
\* the unique key of an EventTypeAvailabilityCache row
CacheKey(e, date, tz, attendee_count) ==
    [organizer |-> EventTypes[e].organizer, event_type |-> e, date |-> date,
     timezone_name |-> tz, attendee_count |-> attendee_count]

\* the key _get_cached_availability looks up: date=start_date
LookupKeyByEndDate(e, start_date, end_date, tz, attendee_count) ==
    CacheKey(e, end_date, tz, attendee_count)

LookupKey(e, start_date, end_date, tz, attendee_count) ==
    CacheKey(e, start_date, tz, attendee_count)

\* the key _cache_availability_result writes: date=start_date
WriteKey(e, start_date, end_date, tz, attendee_count) ==
    CacheKey(e, start_date, tz, attendee_count)

CacheGetMatchesIgnoringDirty(c, key, t) ==
    /\ key \in DOMAIN c
    /\ c[key].expires_at > t

\* the filter of EventTypeAvailabilityCache.objects.get(...) in
\* _get_cached_availability: the row of the key, clean and unexpired
CacheGetMatches(c, key, t) ==
    /\ key \in DOMAIN c
    /\ c[key].is_dirty = FALSE
    /\ c[key].expires_at > t

\* the dictionary _get_cached_availability returns on a match
CachedResult(c, key) ==
    [slots |-> c[key].available_slots,
     total_slots |-> Len(c[key].available_slots),
     cache_hit |-> TRUE,
     error |-> "",
     computation_time_ms |-> c[key].computation_time_ms,
     cache_used |-> TRUE]

CacheWriteWithoutTimeout(c, key, slots, computation_time, t) ==
    LET row == [available_slots |-> slots,
                computed_at |-> t,
                expires_at |-> t,
                is_dirty |-> FALSE,
                computation_time_ms |-> computation_time]
    IN  [k \in DOMAIN c \cup {key} |-> IF k = key THEN row ELSE c[k]]

\* update_or_create(key, defaults=...) of _cache_availability_result
_cache_availability_result(c, key, slots, computation_time, t) ==
    LET row == [available_slots |-> slots,
                computed_at |-> t,
                expires_at |-> t + CacheTimeout,
                is_dirty |-> FALSE,
                computation_time_ms |-> computation_time]
    IN  [k \in DOMAIN c \cup {key} |-> IF k = key THEN row ELSE c[k]]

InvalidatedKeysIgnoringEnd(c, organizer, date_start, date_end) ==
    {k \in DOMAIN c :
        /\ k.organizer = organizer
        /\ (date_start # 0 => k.date >= date_start)}

\* the rows invalidate_availability_cache selects; an absent bound is 0,
\* which Python's `if date_start:` treats as None
InvalidatedKeys(c, organizer, date_start, date_end) ==
    {k \in DOMAIN c :
        /\ k.organizer = organizer
        /\ (date_start # 0 => k.date >= date_start)
        /\ (date_end # 0 => k.date <= date_end)}

InvalidateByDeleting(c, organizer, date_start, date_end) ==
    [k \in DOMAIN c \ InvalidatedKeys(c, organizer, date_start, date_end) |-> c[k]]

\* cache_entries.update(is_dirty=True)
invalidate_availability_cache(c, organizer, date_start, date_end) ==
    LET hit == InvalidatedKeys(c, organizer, date_start, date_end)
    IN  [k \in DOMAIN c |-> IF k \in hit THEN [c[k] EXCEPT !.is_dirty = TRUE]
                                         ELSE c[k]]


\* cache rows an open transaction has updated and holds locked until it ends
LockedKeys == UNION {txn[t].staged_dirty : t \in TxnIds}

\* ------------------------------------------------------ get_available_slots
NoResult ==
    [slots |-> <<>>, total_slots |-> 0, cache_hit |-> FALSE, error |-> "",
     computation_time_ms |-> 0, cache_used |-> FALSE]

NoCall ==
    [valid |-> FALSE, e |-> "e1", start_date |-> 0, end_date |-> 0,
     attendee_count |-> 0, tz |-> "UTC", slots |-> <<>>, expires_at |-> 0]

IdleQuery ==
    [pc |-> "idle", e |-> "e1", start_date |-> 0, end_date |-> 0,
     attendee_count |-> 0, use_cache |-> FALSE, tz |-> "UTC", start_time |-> 0,
     computation_time |-> 0, result |-> NoResult,
     confirmed_at_start |-> {}, prev |-> NoCall]

\* the completed cached call f, as the next call with its arguments sees it
CallRecord(f, slots, expires_at) ==
    [valid |-> TRUE, e |-> f.e, start_date |-> f.start_date,
     end_date |-> f.end_date, attendee_count |-> f.attendee_count, tz |-> f.tz,
     slots |-> slots,
     expires_at |-> expires_at]

SameArguments(call, e, sd, ed, ac, tz) ==
    /\ call.valid
    /\ call.e = e /\ call.start_date = sd /\ call.end_date = ed
    /\ call.attendee_count = ac /\ call.tz = tz

\* every frame forgets the call before it: a mutation has intervened
ForgetPrev(qs) == [q \in DOMAIN qs |-> [qs[q] EXCEPT !.prev = NoCall]]

\* what a committed mutation does to the bookkeeping of the queries: c is
\* the cache table after it
Mutated(c) ==
    /\ query' = ForgetPrev(query)
    /\ lastCall' = NoCall
    /\ settled' = (settled /\ DOMAIN c = {}
                   /\ \A q \in QueryIds : query[q].pc # "write")

\* lines 135-144: the call begins and, with use_cache, looks the cache up
QueryStart(q, e, sd, ed, ac, uc, tz) ==
    /\ query[q].pc = "idle"
    /\ LET key == LookupKey(e, sd, ed, tz, ac)
           frame == [IdleQuery EXCEPT
                       !.e = e, !.start_date = sd, !.end_date = ed,
                       !.attendee_count = ac, !.use_cache = uc, !.tz = tz,
                       !.start_time = now,
                       !.confirmed_at_start =
                           {b \in DOMAIN bookings : bookings[b].status = "confirmed"},
                       !.prev = IF uc /\ SameArguments(lastCall, e, sd, ed, ac, tz)
                                THEN lastCall ELSE NoCall]
       IN  IF uc /\ CacheGetMatches(cache, key, now)
           THEN /\ query' = query
                /\ lastCall' = CallRecord(frame, cache[key].available_slots,
                                          cache[key].expires_at)
                /\ ev' = [op |-> "return", at |-> "lookup", q |-> q,
                          call |-> [frame EXCEPT !.result = CachedResult(cache, key)]]
           ELSE /\ query' = [query EXCEPT ![q] = [frame EXCEPT !.pc = "calc"]]
                /\ lastCall' = lastCall
                /\ ev' = [op |-> "lookup", q |-> q]
    /\ UNCHANGED <<run, users, deletion, queue, exceptions, now, bookings, cache, profiles, resched, txn, settled>>

\* lines 147-166: the computation against the bookings as they are now;
\* without use_cache the call returns here
QueryCalc(q) ==
    /\ query[q].pc = "calc"
    /\ LET f == query[q]
           slots == ComputeSlots(bookings, f.e, f.tz, f.start_date, f.end_date,
                                 f.attendee_count)
           computation_time == (now - f.start_time) * 1000
           result == [slots |-> slots, total_slots |-> Len(slots),
                      cache_hit |-> FALSE, error |-> "",
                      computation_time_ms |-> computation_time,
                      cache_used |-> f.use_cache]
           g == [f EXCEPT !.computation_time = computation_time, !.result = result]
       IN  IF f.use_cache
           THEN /\ query' = [query EXCEPT ![q] = [g EXCEPT !.pc = "write"]]
                /\ ev' = [op |-> "calc", q |-> q]
           ELSE /\ query' = [query EXCEPT ![q] = IdleQuery]
                /\ ev' = [op |-> "return", at |-> "calc", q |-> q, call |-> g]
    /\ UNCHANGED <<run, users, deletion, queue, exceptions, now, bookings, cache, profiles, resched, txn, lastCall, settled>>

\* lines 169-174: the cache write, then the return
QueryWrite(q) ==
    /\ query[q].pc = "write"
    /\ WriteKey(query[q].e, query[q].start_date, query[q].end_date, query[q].tz,
                query[q].attendee_count) \notin LockedKeys
    /\ LET f == query[q]
           key == WriteKey(f.e, f.start_date, f.end_date, f.tz, f.attendee_count)
           c2 == _cache_availability_result(cache, key, f.result.slots,
                                            f.computation_time, now)
       IN  /\ cache' = c2
           /\ lastCall' = CallRecord(f, f.result.slots, c2[key].expires_at)
           /\ query' = [p \in QueryIds |->
                          IF p = q THEN IdleQuery
                          ELSE [query[p] EXCEPT !.prev = NoCall]]
           /\ ev' = [op |-> "return", at |-> "write", q |-> q, call |-> f,
                     was_dirty |-> key \in DOMAIN cache /\ cache[key].is_dirty]
    /\ UNCHANGED <<run, users, deletion, queue, exceptions, now, bookings, profiles, resched, txn, settled>>

\* the clock advances by one cache timeout
Tick ==
    /\ now + CacheTimeout <= MaxTicks * CacheTimeout
    /\ now' = now + CacheTimeout
    /\ ev' = [op |-> "tick"]
    /\ UNCHANGED <<run, users, deletion, queue, exceptions, bookings, cache, profiles, query, resched, txn,
                   lastCall, settled>>

\* --------------------------------------------------------------- bookings
\* start instants a booking may be asked for: the slot grid of every date
BookingStarts ==
    {Localize("UTC", Combine(d, 9)) + m : d \in Dates, m \in {0, 30}}

\* Booking.can_be_cancelled()
can_be_cancelled(bks, b) == bks[b].status = "confirmed"

\* Booking.can_be_rescheduled()
can_be_rescheduled(bks, b) == bks[b].status = "confirmed"

\* Booking.cancel(cancelled_by, reason)
BookingCancel(bks, b) == [bks EXCEPT ![b].status = "cancelled"]

\* the booking-confirmation path: the availability check and the insert of
\* the confirmed row in one transaction, then the invalidation of the
\* organizer's cache entries
CreateBooking(e, st, ac) ==
    /\ Cardinality(DOMAIN bookings) < MaxBookings
    /\ LET b == Cardinality(DOMAIN bookings) + 1
           o == EventTypes[e].organizer
           row == [organizer |-> o, event_type |-> e, start_time |-> st,
                   end_time |-> st + EventTypes[e].duration,
                   status |-> "confirmed", attendee_count |-> ac,
                   invitee_timezone |-> "UTC"]
           c2 == invalidate_availability_cache(cache, o, 0, 0)
       IN  /\ _is_slot_available(bookings, e, st, st + EventTypes[e].duration, ac)
           /\ InvalidatedKeys(cache, o, 0, 0) \cap LockedKeys = {}
           /\ bookings' = [x \in DOMAIN bookings \cup {b} |->
                             IF x = b THEN row ELSE bookings[x]]
           /\ cache' = c2
           /\ ev' = [op |-> "create", b |-> b, ok |-> TRUE, organizer |-> o]
           /\ Mutated(c2)
    /\ UNCHANGED <<run, users, deletion, queue, exceptions, now, profiles, resched, txn>>

\* handle_booking_cancellation(booking); audit_ok is whether
\* create_booking_audit_log returns or raises
HandleBookingCancellation(b, audit_ok) ==
    /\ b \in DOMAIN bookings
    /\ IF ~can_be_cancelled(bookings, b)
       THEN /\ ev' = [op |-> "cancel", b |-> b, ok |-> FALSE, saved |-> FALSE,
                      organizer |-> bookings[b].organizer]
            /\ UNCHANGED <<bookings, query, lastCall, settled>>
       ELSE /\ bookings' = BookingCancel(bookings, b)
            /\ ev' = [op |-> "cancel", b |-> b, ok |-> audit_ok, saved |-> TRUE,
                      organizer |-> bookings[b].organizer]
            /\ Mutated(cache)
    /\ UNCHANGED <<run, users, deletion, queue, exceptions, now, cache, profiles, resched, txn>>

IdleResched ==
    [pc |-> "idle", b |-> 0, new_start_time |-> 0, during |-> {}]

\* workers whose call is between its availability check and its write
InFlight == {r \in ReschedIds : resched[r].pc = "write"}

\* lines 480-502 of handle_booking_rescheduling: the checks
ReschedCheck(r, b, new_start_time) ==
    /\ resched[r].pc = "idle"
    /\ b \in DOMAIN bookings
    /\ LET bk == bookings[b]
           d == DateOf("UTC", new_start_time)
           slots == ComputeSlots(bookings, bk.event_type, bk.invitee_timezone,
                                 d, d, bk.attendee_count)
           slot_available == \E i \in 1..Len(slots) :
                                 slots[i].start_time = new_start_time
       IN  IF can_be_rescheduled(bookings, b) /\ slot_available
           THEN /\ resched' = [resched EXCEPT ![r] =
                      [IdleResched EXCEPT !.pc = "write", !.b = b,
                                          !.new_start_time = new_start_time]]
                /\ ev' = [op |-> "reschedule_check", r |-> r, b |-> b]
           ELSE /\ resched' = resched
                /\ ev' = [op |-> "reschedule", r |-> r, b |-> b, ok |-> FALSE,
                          saved |-> FALSE, organizer |-> bk.organizer,
                          new_start_time |-> new_start_time, during |-> {}]
    /\ UNCHANGED <<run, users, deletion, queue, exceptions, now, bookings, cache, profiles, query, txn, lastCall, settled>>

\* lines 504-538: booking.save() with the new interval, then the audit log
ReschedWrite(r, audit_ok) ==
    /\ resched[r].pc = "write"
    /\ LET f == resched[r]
           e == bookings[f.b].event_type
           done == [b |-> f.b, e |-> e, new_start_time |-> f.new_start_time,
                    ok |-> audit_ok]
       IN  /\ bookings' = [bookings EXCEPT
                   ![f.b].start_time = f.new_start_time,
                   ![f.b].end_time = f.new_start_time + EventTypes[e].duration,
                   ![f.b].status = "rescheduled"]
           /\ resched' = [x \in ReschedIds |->
                  IF x = r THEN IdleResched
                  ELSE IF x \in InFlight
                       THEN [resched[x] EXCEPT !.during = @ \cup {done}]
                       ELSE resched[x]]
           /\ ev' = [op |-> "reschedule", r |-> r, b |-> f.b, ok |-> audit_ok,
                     saved |-> TRUE, organizer |-> bookings[f.b].organizer,
                     new_start_time |-> f.new_start_time, during |-> f.during]
    /\ Mutated(cache)
    /\ UNCHANGED <<run, users, deletion, queue, exceptions, now, cache, profiles, txn>>

\* ---------------------------------------------- signal handlers, on_commit
IdleTxn ==
    [pc |-> "idle", kind |-> "", organizer |-> "", start_date |-> 0,
     end_date |-> 0, on_commit |-> FALSE, staged_tz |-> "", changed_tz |-> FALSE,
     update_fields |-> "", staged_dirty |-> {}, invalidate_called |-> FALSE]

\* _invalidate_cache_for_blocked_time / _invalidate_cache_for_availability_rule:
\* the organizer and the date range the callback hands to
\* invalidate_availability_cache (an availability rule has no range)
CallbackTarget(f) ==
    IF f.kind = "blocked_time"
    THEN [organizer |-> f.organizer, date_start |-> f.start_date,
          date_end |-> f.end_date]
    ELSE [organizer |-> f.organizer, date_start |-> 0, date_end |-> 0]

\* handle_blocked_time_change / handle_blocked_time_deletion: a BlockedTime
\* row of organizer o is saved or deleted inside a transaction; the handler
\* registers the invalidation with transaction.on_commit
SaveBlockedTime(t, o, d1, d2) ==
    /\ txn[t].pc = "idle"
    /\ txn' = [txn EXCEPT ![t] =
           [IdleTxn EXCEPT !.pc = "open", !.kind = "blocked_time",
                           !.organizer = o, !.start_date = d1, !.end_date = d2,
                           !.on_commit = TRUE]]
    /\ ev' = [op |-> "save_blocked_time", t |-> t]
    /\ UNCHANGED <<run, users, deletion, queue, exceptions, now, bookings, cache, profiles, query, resched, lastCall, settled>>

\* handle_availability_rule_change / handle_availability_rule_deletion
SaveAvailabilityRule(t, o) ==
    /\ txn[t].pc = "idle"
    /\ txn' = [txn EXCEPT ![t] =
           [IdleTxn EXCEPT !.pc = "open", !.kind = "availability_rule",
                           !.organizer = o, !.on_commit = TRUE]]
    /\ ev' = [op |-> "save_availability_rule", t |-> t]
    /\ UNCHANGED <<run, users, deletion, queue, exceptions, now, bookings, cache, profiles, query, resched, lastCall, settled>>

\* whether handle_profile_timezone_change calls invalidate_availability_cache:
\* instance_tz is instance.timezone_name, row_tz the timezone_name of the row
\* Profile.objects.get(pk=instance.pk) reads, which is the row just saved
ProfileHandlerInvalidates(update_fields, instance_tz, row_tz) ==
    IF update_fields # "" /\ update_fields = "timezone_name" THEN TRUE
    ELSE IF update_fields = "" THEN row_tz # instance_tz
    ELSE FALSE

\* Profile.save() of organizer o with timezone_name tz on the instance, and
\* handle_profile_timezone_change, which post_save runs inside the
\* transaction. update_fields is "" (a full save), "timezone_name" or
\* "other" (a list without timezone_name).
SaveProfile(t, o, tz, update_fields) ==
    /\ txn[t].pc = "idle"
    /\ LET writes_tz == update_fields \in {"", "timezone_name"}
           row_tz == IF writes_tz THEN tz ELSE profiles[o].timezone_name
           invalidates == ProfileHandlerInvalidates(update_fields, tz, row_tz)
       IN  /\ invalidates => InvalidatedKeys(cache, o, 0, 0) \cap LockedKeys = {}
           /\ txn' = [txn EXCEPT ![t] =
                  [IdleTxn EXCEPT
                      !.pc = "open", !.kind = "profile", !.organizer = o,
                      !.staged_tz = row_tz, !.update_fields = update_fields,
                      !.changed_tz = (row_tz # profiles[o].timezone_name),
                      !.invalidate_called = invalidates,
                      !.staged_dirty = IF invalidates
                                       THEN InvalidatedKeys(cache, o, 0, 0)
                                       ELSE {}]]
    /\ ev' = [op |-> "save_profile", t |-> t]
    /\ UNCHANGED <<run, users, deletion, queue, exceptions, now, bookings, cache, profiles, query, resched, lastCall, settled>>

\* the transaction commits: its staged rows become visible together
Commit(t) ==
    /\ txn[t].pc = "open"
    /\ LET f == txn[t]
           c2 == [k \in DOMAIN cache |->
                    IF k \in f.staged_dirty
                    THEN [cache[k] EXCEPT !.is_dirty = TRUE] ELSE cache[k]]
       IN  /\ profiles' = IF f.kind = "profile"
                          THEN [profiles EXCEPT ![f.organizer].timezone_name = f.staged_tz]
                          ELSE profiles
           /\ cache' = c2
           /\ txn' = [txn EXCEPT ![t] =
                  IF f.on_commit
                  THEN [f EXCEPT !.pc = "committed", !.staged_dirty = {}]
                  ELSE IdleTxn]
           /\ ev' = [op |-> "commit", t |-> t, txn |-> f]
           /\ Mutated(c2)
    /\ UNCHANGED <<run, users, deletion, queue, exceptions, now, bookings, resched>>

\* the transaction rolls back: staged rows and on_commit callbacks are dropped
Rollback(t) ==
    /\ txn[t].pc = "open"
    /\ txn' = [txn EXCEPT ![t] = IdleTxn]
    /\ ev' = [op |-> "rollback", t |-> t, txn |-> txn[t], before |-> cache]
    /\ UNCHANGED <<run, users, deletion, queue, exceptions, now, bookings, cache, profiles, query, resched, lastCall, settled>>

\* the on_commit callback runs, after the commit, in a transaction of its own
RunOnCommit(t) ==
    /\ txn[t].pc = "committed"
    /\ LET f == txn[t]
           target == CallbackTarget(f)
           c2 == IF target.organizer # ""
                 THEN invalidate_availability_cache(cache, target.organizer,
                          target.date_start, target.date_end)
                 ELSE cache
       IN  /\ InvalidatedKeys(cache, target.organizer, target.date_start,
                              target.date_end) \cap LockedKeys = {}
           /\ cache' = c2
           /\ txn' = [txn EXCEPT ![t] = IdleTxn]
           /\ ev' = [op |-> "on_commit", t |-> t,
                     txn |-> [f EXCEPT !.invalidate_called = (target.organizer # "")]]
           /\ Mutated(c2)
    /\ UNCHANGED <<run, users, deletion, queue, exceptions, now, bookings, profiles, resched>>

\* ------------------------------------- get_available_slots, failures included
\* the statement of a call that raises, if any
FailurePoints ==
    {"none", "cache_lookup", "slot_generation", "conflict_check",
     "recurring_logic", "recurring_exceptions", "cache_write"}

\* the dictionary of the except clause of get_available_slots
ErrorResult(message, use_cache) ==
    [slots |-> <<>>, total_slots |-> 0, cache_hit |-> FALSE, error |-> message,
     computation_time_ms |-> 0, cache_used |-> use_cache]

\* whether a call with these arguments executes the statement fail_at
Raised(c, t, e, tz, sd, ed, ac, uc, fail_at) ==
    LET hit == uc /\ CacheGetMatches(c, LookupKey(e, sd, ed, tz, ac), t)
        recurring == EventTypes[e].recurrence_type # "none"
    IN  CASE fail_at = "none" -> FALSE
          [] fail_at = "cache_lookup" -> uc
          [] fail_at = "slot_generation" -> ~hit
          [] fail_at = "conflict_check" ->
                 ~hit /\ _calculate_availability(<<>>, e, tz, sd, ed, ac) # <<>>
          [] fail_at = "recurring_logic" -> ~hit /\ recurring
          [] fail_at = "recurring_exceptions" -> ~hit /\ recurring
          [] fail_at = "cache_write" -> ~hit /\ uc

\* what get_available_slots returns when the statement fail_at raises:
\* the try of get_available_slots catches what reaches it, the try blocks of
\* _apply_recurring_logic and _apply_recurring_exceptions return slots, the
\* try of _cache_availability_result only logs
ResultWithFailure(bks, c, t, e, tz, sd, ed, ac, uc, fail_at) ==
    LET key == LookupKey(e, sd, ed, tz, ac)
        raised == Raised(c, t, e, tz, sd, ed, ac, uc, fail_at)
        s1 == _calculate_availability(bks, e, tz, sd, ed, ac)
        s2 == IF EventTypes[e].recurrence_type # "none"
              THEN _apply_recurring_logic(s1, e, sd, ed)
              ELSE s1
        s3 == IF raised /\ fail_at = "recurring_exceptions"
              THEN s2
              ELSE _apply_recurring_exceptions(s2, e, tz, sd, ed)
    IN  IF raised /\ fail_at = "cache_lookup" THEN ErrorResult(fail_at, uc)
        ELSE IF uc /\ CacheGetMatches(c, key, t) THEN CachedResult(c, key)
        ELSE IF raised /\ fail_at \in {"slot_generation", "conflict_check"}
        THEN ErrorResult(fail_at, uc)
        ELSE [slots |-> s3, total_slots |-> Len(s3), cache_hit |-> FALSE,
              error |-> "", computation_time_ms |-> 0, cache_used |-> uc]

\* one whole get_available_slots call with no other process in between
GetAvailableSlots(e, sd, ed, ac, uc, tz, fail_at) ==
    /\ \A q \in QueryIds : query[q].pc = "idle"
    /\ LockedKeys = {}
    /\ LET raised == Raised(cache, now, e, tz, sd, ed, ac, uc, fail_at)
           result == ResultWithFailure(bookings, cache, now, e, tz, sd, ed, ac,
                                       uc, fail_at)
           writes == /\ uc /\ ~result.cache_hit /\ result.error = ""
                     /\ ~(raised /\ fail_at = "cache_write")
       IN  /\ cache' = IF writes
                       THEN _cache_availability_result(cache,
                                WriteKey(e, sd, ed, tz, ac), result.slots, 0, now)
                       ELSE cache
           /\ ev' = [op |-> "call", e |-> e, start_date |-> sd, end_date |-> ed,
                     attendee_count |-> ac, use_cache |-> uc, tz |-> tz,
                     fail_at |-> fail_at, raised |-> raised, result |-> result]
    /\ lastCall' = NoCall
    /\ UNCHANGED <<run, users, deletion, queue, exceptions, now, bookings, profiles, query, resched, txn, settled>>

\* a RecurringEventException row of event type e is saved
ExceptionStarts == {Localize("UTC", Combine(d, 9)) + 15 : d \in Dates}

SaveException(e, date, exception_type, new_start_time) ==
    /\ Cardinality(exceptions) < MaxExceptions
    /\ exceptions' = exceptions \cup
           {[event_type |-> e, exception_date |-> date,
             exception_type |-> exception_type,
             new_start_time |-> new_start_time]}
    /\ exceptions' # exceptions
    /\ ev' = [op |-> "save_exception", e |-> e]
    /\ Mutated(cache)
    /\ UNCHANGED <<run, users, deletion, queue, now, bookings, cache, profiles,
                   resched, txn>>

\* --------------------------------- get_available_slots, loop by loop
IdleRun ==
    [pc |-> "idle", e |-> "e1", start_date |-> 0, end_date |-> 0,
     use_cache |-> FALSE, current_date |-> 0, current_time |-> 0,
     end_time |-> 0, slots |-> <<>>]

\* the call, as its return shows it
RunReturn(f, result) ==
    [op |-> "run_return", e |-> f.e, start_date |-> f.start_date,
     end_date |-> f.end_date, use_cache |-> f.use_cache, result |-> result]

\* lines 135-144 and 217-218: the call begins, looks the cache up with
\* use_cache, and otherwise sets current_date = start_date
RunStart(e, sd, ed, uc) ==
    /\ run.pc = "idle"
    /\ LET key == LookupKey(e, sd, ed, "UTC", 1)
           f == [IdleRun EXCEPT !.e = e, !.start_date = sd, !.end_date = ed,
                                !.use_cache = uc, !.current_date = sd]
       IN  IF uc /\ CacheGetMatches(cache, key, now)
           THEN /\ run' = IdleRun
                /\ ev' = RunReturn(f, CachedResult(cache, key))
           ELSE /\ run' = [f EXCEPT !.pc = "dates"]
                /\ ev' = [op |-> "run_start"]
    /\ UNCHANGED <<users, deletion, queue, exceptions, now, bookings, cache,
                   profiles, query, resched, txn, lastCall, settled>>

\* lines 220-226, 149-174: one test of `while current_date <= end_date`;
\* when it fails the call applies the recurring steps, writes the cache
\* with use_cache and returns
RunDate ==
    /\ run.pc = "dates"
    /\ LET f == run
           hours == ProfileHours[EventTypes[f.e].organizer]
           s2 == IF EventTypes[f.e].recurrence_type # "none"
                 THEN _apply_recurring_logic(f.slots, f.e, f.start_date, f.end_date)
                 ELSE f.slots
           s3 == _apply_recurring_exceptions(s2, f.e, "UTC", f.start_date, f.end_date)
           result == [slots |-> s3, total_slots |-> Len(s3), cache_hit |-> FALSE,
                      error |-> "", computation_time_ms |-> 0,
                      cache_used |-> f.use_cache]
       IN  IF f.current_date <= f.end_date
           THEN /\ run' = IF can_book_on_date(f.e, f.current_date)
                           THEN [f EXCEPT
                                   !.pc = "slots",
                                   !.current_time = Localize("UTC",
                                       Combine(f.current_date, hours.reasonable_hours_start)),
                                   !.end_time = Localize("UTC",
                                       Combine(f.current_date, hours.reasonable_hours_end))]
                           ELSE [f EXCEPT !.current_date = @ + 1]
                /\ ev' = [op |-> "run_date"]
                /\ cache' = cache
           ELSE /\ run' = IdleRun
                /\ ev' = RunReturn(f, result)
                /\ cache' = IF f.use_cache
                            THEN _cache_availability_result(cache,
                                     WriteKey(f.e, f.start_date, f.end_date, "UTC", 1),
                                     s3, 0, now)
                            ELSE cache
    /\ lastCall' = NoCall
    /\ UNCHANGED <<users, deletion, queue, exceptions, now, bookings, profiles,
                   query, resched, txn, settled>>

\* lines 255-267: one test of the while loop of _get_daily_slots and, when
\* it holds, one pass of its body. datetime + timedelta raises OverflowError
\* below datetime.min; the except clause of get_available_slots returns it
RunSlot ==
    /\ run.pc = "slots"
    /\ LET f == run
           duration == EventTypes[f.e].duration
           slot_end_time == f.current_time + duration
           slot == [start_time |-> f.current_time, end_time |-> slot_end_time,
                    duration_minutes |-> duration,
                    available_spots |-> EventTypes[f.e].max_attendees]
           slots == IF _is_slot_available(bookings, f.e, f.current_time,
                                          slot_end_time, 1)
                    THEN Append(f.slots, slot) ELSE f.slots
       IN  IF f.current_time + duration <= f.end_time
           THEN IF f.current_time + SlotInterval(f.e) < MinInstant
                THEN /\ run' = IdleRun
                     /\ ev' = RunReturn(f, ErrorResult("date value out of range",
                                                       f.use_cache))
                ELSE /\ run' = [f EXCEPT !.slots = slots,
                                         !.current_time = @ + SlotInterval(f.e)]
                     /\ ev' = [op |-> "run_slot"]
           ELSE /\ run' = [f EXCEPT !.pc = "dates", !.current_date = @ + 1]
                /\ ev' = [op |-> "run_date_done"]
    /\ UNCHANGED <<users, deletion, queue, exceptions, now, bookings, cache,
                   profiles, query, resched, txn, lastCall, settled>>

\* ------------------------------------------------------ account deletion
IdleDeletion == [pc |-> "idle", user_id |-> 0]

\* a save of a User with another account_status; updated_at becomes now,
\* which is later than any cutoff
SetAccountStatus(u, status) ==
    /\ u \in DOMAIN users
    /\ users[u].account_status # status
    /\ users' = [users EXCEPT ![u] = [account_status |-> status, old |-> FALSE]]
    /\ ev' = [op |-> "set_status", user_id |-> u, status |-> status]
    /\ UNCHANGED <<run, deletion, queue, exceptions, now, bookings, cache,
                   profiles, query, resched, txn, lastCall, settled>>

\* more than 24 hours pass since the row was last saved
Age(u) ==
    /\ u \in DOMAIN users
    /\ ~users[u].old
    /\ users' = [users EXCEPT ![u].old = TRUE]
    /\ ev' = [op |-> "age", user_id |-> u]
    /\ UNCHANGED <<run, deletion, queue, exceptions, now, bookings, cache,
                   profiles, query, resched, txn, lastCall, settled>>

\* lines 63-68: the users marked for deletion more than 24 hours ago
pending_users ==
    {u \in DOMAIN users : /\ users[u].account_status = "pending_deletion"
                          /\ users[u].old}

\* lines 50-83: one process_account_deletion task is queued per such user
cleanup_pending_deletions ==
    /\ \A u \in pending_users : queue[u] < MaxQueued
    /\ queue' = [u \in UserIds |->
                    IF u \in pending_users THEN queue[u] + 1 ELSE queue[u]]
    /\ ev' = [op |-> "cleanup", count |-> Cardinality(pending_users)]
    /\ UNCHANGED <<run, users, deletion, exceptions, now, bookings, cache,
                   profiles, query, resched, txn, lastCall, settled>>

\* what a process_account_deletion run did, as its last step shows it
DeletionReturn(w, user_id, found, rows_deleted, status_at_delete) ==
    [op |-> "deletion", worker |-> w, user_id |-> user_id, found |-> found,
     rows_deleted |-> rows_deleted, status_at_delete |-> status_at_delete,
     raised |-> FALSE]

\* lines 23-26, 40-42: a worker takes a queued task and reads the user with
\* account_status = pending_deletion; DoesNotExist ends the run
ProcessGet(w, u) ==
    /\ deletion[w].pc = "idle"
    /\ queue[u] > 0
    /\ queue' = [queue EXCEPT ![u] = @ - 1]
    /\ IF u \in DOMAIN users /\ users[u].account_status = "pending_deletion"
       THEN /\ deletion' = [deletion EXCEPT ![w] = [pc |-> "got", user_id |-> u]]
            /\ ev' = [op |-> "deletion_get", worker |-> w, user_id |-> u]
       ELSE /\ deletion' = deletion
            /\ ev' = DeletionReturn(w, u, FALSE, 0, "none")
    /\ UNCHANGED <<run, users, exceptions, now, bookings, cache, profiles,
                   query, resched, txn, lastCall, settled>>

\* lines 28-38: the transaction deletes the row by its primary key, whatever
\* its account_status is by now, and the run returns
ProcessDelete(w) ==
    /\ deletion[w].pc = "got"
    /\ LET u == deletion[w].user_id
           present == u \in DOMAIN users
       IN  /\ users' = [v \in DOMAIN users \ {u} |-> users[v]]
           /\ ev' = DeletionReturn(w, u, TRUE, IF present THEN 1 ELSE 0,
                        IF present THEN users[u].account_status ELSE "none")
    /\ deletion' = [deletion EXCEPT ![w] = IdleDeletion]
    /\ UNCHANGED <<run, queue, exceptions, now, bookings, cache, profiles,
                   query, resched, txn, lastCall, settled>>

\* ---------------------------------------------------------- specifications
Init ==
    /\ now = 0
    /\ bookings = <<>>
    /\ cache = <<>>
    /\ profiles = [o \in Organizers |-> [timezone_name |-> "UTC"]]
    /\ query = [q \in QueryIds |-> IdleQuery]
    /\ resched = [r \in ReschedIds |-> IdleResched]
    /\ txn = [t \in TxnIds |-> IdleTxn]
    /\ ev = [op |-> "init"]
    /\ lastCall = NoCall
    /\ settled = TRUE
    /\ exceptions = {}
    /\ run = IdleRun
    /\ users = [u \in UserIds |-> [account_status |-> "active", old |-> FALSE]]
    /\ deletion = [w \in DeleterIds |-> IdleDeletion]
    /\ queue = [u \in UserIds |-> 0]

\* get_available_slots calls for the event types E with use_cache in UC
QueryNext(E, UC) ==
    \E q \in QueryIds :
        \/ \E e \in E, sd \in Dates, ed \in Dates, uc \in UC,
              tz \in InviteeTimezones :
           \E ac \in 1..EventTypes[e].max_attendees :
               sd <= ed /\ QueryStart(q, e, sd, ed, ac, uc, tz)
        \/ QueryCalc(q)
        \/ QueryWrite(q)

CreateNext(E) ==
    \E e \in E, st \in BookingStarts :
    \E ac \in 1..EventTypes[e].max_attendees : CreateBooking(e, st, ac)

CancelNext ==
    \E b \in BookingIds, audit_ok \in BOOLEAN : HandleBookingCancellation(b, audit_ok)

ReschedNext ==
    \/ \E r \in ReschedIds, b \in BookingIds, st \in BookingStarts : ReschedCheck(r, b, st)
    \/ \E r \in ReschedIds, audit_ok \in BOOLEAN : ReschedWrite(r, audit_ok)

SignalNext(O) ==
    \/ \E t \in TxnIds, o \in O, d1 \in Dates \cup {0}, d2 \in Dates \cup {0} :
          SaveBlockedTime(t, o, d1, d2)
    \/ \E t \in TxnIds, o \in O : SaveAvailabilityRule(t, o)
    \/ \E t \in TxnIds, o \in O, tz \in ProfileTimezones,
          uf \in {"", "timezone_name", "other"} : SaveProfile(t, o, tz, uf)
    \/ \E t \in TxnIds : Commit(t) \/ Rollback(t) \/ RunOnCommit(t)

\* the conflict check against confirmations and cancellations
NextConflict == CreateNext({"e1", "e2"}) \/ CancelNext

SpecConflict == Init /\ [][NextConflict]_vars

\* concurrent reschedules of the bookings of e1
NextResched == CreateNext({"e1"}) \/ ReschedNext

SpecResched == Init /\ [][NextResched]_vars

\* cached queries for e1 against confirmations, cancellations and the clock
NextCache ==
    QueryNext({"e1"}, {TRUE}) \/ CreateNext({"e1"}) \/ CancelNext \/ Tick

SpecCache == Init /\ [][NextCache]_vars

\* cached queries of both organizers against the signal handlers of o1
NextSignals == QueryNext({"e1", "e3"}, {TRUE}) \/ SignalNext({"o1"})

SpecSignals == Init /\ [][NextSignals]_vars

\* whole calls, failures included, against bookings and recurring exceptions
CallNext(E, UC, F) ==
    \E e \in E, sd \in Dates, ed \in Dates, uc \in UC, tz \in InviteeTimezones,
       fail_at \in F :
    \E ac \in 1..EventTypes[e].max_attendees :
        sd <= ed /\ GetAvailableSlots(e, sd, ed, ac, uc, tz, fail_at)

ExceptionNext(E) ==
    \E e \in E, d \in Dates :
        \/ SaveException(e, d, "cancelled", 0)
        \/ \E st \in ExceptionStarts \cup {0} : SaveException(e, d, "rescheduled", st)

NextCalc ==
    \/ CallNext({"e1", "e4"}, {FALSE}, FailurePoints)
    \/ CallNext({"e4"}, {TRUE}, {"cache_lookup", "cache_write"})
    \/ CreateNext({"e1"})
    \/ ExceptionNext({"e4"})

SpecCalc == Init /\ [][NextCalc]_vars

\* cached one-date queries for the event types E
QueryDayNext(E) ==
    \E q \in QueryIds :
        \/ \E e \in E, d \in Dates, tz \in InviteeTimezones :
           \E ac \in 1..EventTypes[e].max_attendees :
               QueryStart(q, e, d, d, ac, TRUE, tz)
        \/ QueryCalc(q)
        \/ QueryWrite(q)

\* cached one-date queries of e1 against booking confirmations, each of
\* which invalidates the organizer's rows
NextRace == QueryDayNext({"e1"}) \/ CreateNext({"e1"})

SpecRace == Init /\ [][NextRace]_vars

\* slot generation of every event type, with and without bookings
NextGrid ==
    \/ CallNext(GridTypes, {FALSE}, {"none"})
    \/ CreateNext({"e1"})
    \/ CancelNext

SpecGrid == Init /\ [][NextGrid]_vars

\* calls followed loop by loop, without the cache for e1 and for the event
\* types with a zero or negative duration or interval, and with the cache
\* for e1, over every ordered pair of dates, against bookings made meanwhile. A call that has begun goes on: the worker that runs it is
\* not suspended for ever
RunNext(E, UC) ==
    \E e \in E, sd \in Dates, ed \in Dates, uc \in UC : RunStart(e, sd, ed, uc)

NextLoop ==
    \/ RunNext({"e1", "e5", "e6", "e10", "e11"}, {FALSE})
    \/ RunNext({"e1"}, {TRUE})
    \/ RunDate
    \/ RunSlot
    \/ CreateNext({"e1"})

SpecLoop == Init /\ [][NextLoop]_vars /\ WF_vars(RunDate) /\ WF_vars(RunSlot)

\* account deletion: status changes, the periodic cleanup and the workers
NextDeletion ==
    \/ \E u \in UserIds, status \in {"active", "pending_deletion"} :
           SetAccountStatus(u, status)
    \/ \E u \in UserIds : Age(u)
    \/ cleanup_pending_deletions
    \/ \E w \in DeleterIds, u \in UserIds : ProcessGet(w, u)
    \/ \E w \in DeleterIds : ProcessDelete(w)

SpecDeletion == Init /\ [][NextDeletion]_vars


\* ------------------------------------------------------------------ claims
\* the half-open overlap test of a booking row with a slot
Overlaps(bk, slot) ==
    bk.start_time < slot.end_time /\ bk.end_time > slot.start_time

\* a get_available_slots call has just returned
Returned == ev.op = "return"

KeyOfCall(f) == CacheKey(f.e, f.start_date, f.tz, f.attendee_count)

\* C1: a get_available_slots call for a single-attendee event type returns
\* no slot that overlaps a booking of the organizer that was confirmed
\* before the call started (and still is).
C1_NoSlotOverConfirmedBooking ==
    (Returned /\ ~is_group_event(ev.call.e)) =>
        \A i \in 1..Len(ev.call.result.slots) :
        \A b \in ev.call.confirmed_at_start :
            (/\ bookings[b].status = "confirmed"
             /\ bookings[b].organizer = EventTypes[ev.call.e].organizer)
            => ~Overlaps(bookings[b], ev.call.result.slots[i])

\* C2: after cached queries only, with no mutation since the first of them,
\* a cached call returns the slot sequence the uncached computation gives
\* on the same state.
C2_CachedEqualsUncached ==
    (Returned /\ ev.call.use_cache /\ settled) =>
        ev.call.result.slots =
            ComputeSlots(bookings, ev.call.e, ev.call.tz, ev.call.start_date,
                         ev.call.end_date, ev.call.attendee_count)

\* the row of key k is there, clean and unexpired at time t
Usable(k, t) ==
    k \in DOMAIN cache /\ ~cache[k].is_dirty /\ t < cache[k].expires_at

\* C3: a use_cache call is answered from the cache, with cache_hit = TRUE,
\* iff the row of its key exists, is not dirty and has now < expires_at;
\* otherwise it goes on to recompute and returns cache_hit = FALSE.
C3_HitIffUsable ==
    /\ (Returned /\ ev.at = "lookup") =>
           /\ ev.call.use_cache
           /\ ev.call.result.cache_hit
           /\ Usable(KeyOfCall(ev.call), now)
           /\ ev.call.result.slots = cache[KeyOfCall(ev.call)].available_slots
    /\ ev.op = "lookup" =>
           /\ query[ev.q].pc = "calc"
           /\ query[ev.q].use_cache =>
                  ~Usable(KeyOfCall(query[ev.q]), query[ev.q].start_time)
    /\ (Returned /\ ev.at # "lookup") => ~ev.call.result.cache_hit

\* a use_cache call found a dirty but unexpired row for its key and went
\* on to recompute
C3_Witness ==
    /\ ev.op = "lookup"
    /\ query[ev.q].use_cache
    /\ KeyOfCall(query[ev.q]) \in DOMAIN cache
    /\ cache[KeyOfCall(query[ev.q])].is_dirty
    /\ now < cache[KeyOfCall(query[ev.q])].expires_at

C5_BookingChangeDirtiesOrganizer ==
    (ev.op \in {"create", "cancel", "reschedule"} /\ ev.ok) =>
        \A k \in DOMAIN cache :
            k.organizer = ev.organizer => cache[k].is_dirty

\* C6: right after the commit of a Profile save that changed the
\* organizer's timezone_name (full save or update_fields), every cache row
\* of that organizer is dirty.
C6_TimezoneChangeDirtiesOrganizer ==
    (ev.op = "commit" /\ ev.txn.kind = "profile" /\ ev.txn.changed_tz) =>
        \A k \in DOMAIN cache :
            k.organizer = ev.txn.organizer => cache[k].is_dirty

\* C7: no signal handler calls invalidate_availability_cache while the
\* mutating transaction is still open, and a rollback leaves the cache
\* table as it was.
C7_InvalidationOnlyAfterCommit ==
    /\ \A t \in TxnIds : txn[t].pc = "open" => ~txn[t].invalidate_called
    /\ ev.op = "rollback" => cache = ev.before

\* C8: the on_commit invalidation of a blocked-time mutation of organizer O
\* with both dates d1, d2 set leaves every row of O dated in [d1, d2] dirty,
\* leaves every other row exactly as it was, and adds or removes no row.
C8_BlockedTimeInvalidatesItsRange ==
    [][\A t \in TxnIds :
          (/\ txn[t].pc = "committed" /\ txn'[t].pc = "idle"
           /\ txn[t].kind = "blocked_time"
           /\ txn[t].start_date # 0 /\ txn[t].end_date # 0) =>
              /\ DOMAIN cache' = DOMAIN cache
              /\ \A k \in DOMAIN cache :
                    IF /\ k.organizer = txn[t].organizer
                       /\ txn[t].start_date <= k.date
                       /\ k.date <= txn[t].end_date
                    THEN cache'[k].is_dirty
                    ELSE cache'[k] = cache[k]]_vars

\* the callback of a blocked-time mutation of one date has just run: the
\* organizer's row of that date is dirty, another row of the organizer and
\* a row of another organizer are still clean
C8_Witness ==
    /\ ev.op = "on_commit" /\ ev.txn.kind = "blocked_time"
    /\ ev.txn.start_date # 0 /\ ev.txn.end_date # 0
    /\ \E k \in DOMAIN cache :
          /\ k.organizer = ev.txn.organizer
          /\ ev.txn.start_date <= k.date /\ k.date <= ev.txn.end_date
          /\ cache[k].is_dirty
    /\ \E k \in DOMAIN cache :
          /\ k.organizer = ev.txn.organizer
          /\ (k.date < ev.txn.start_date \/ k.date > ev.txn.end_date)
          /\ ~cache[k].is_dirty
    /\ \E k \in DOMAIN cache :
          k.organizer # ev.txn.organizer /\ ~cache[k].is_dirty

\* C9: of two handle_booking_rescheduling calls that overlap in time and
\* move two bookings of a single-attendee event type to the same start
\* time, at most one returns success.
C9_NoTwoConcurrentReschedulesSucceed ==
    (/\ ev.op = "reschedule" /\ ev.ok
     /\ ~is_group_event(bookings[ev.b].event_type)) =>
        ~\E x \in ev.during :
            /\ x.ok
            /\ x.b # ev.b
            /\ x.e = bookings[ev.b].event_type
            /\ x.new_start_time = ev.new_start_time

\* C10: for a group event type e, a candidate slot is available for ac
\* attendees iff the attendee_count of the confirmed bookings of that
\* organizer and event type e overlapping it, plus ac, is <= max_attendees.
C10_GroupCapacityCountsOwnEventType ==
    \A e \in EventTypeIds : is_group_event(e) =>
        \A st \in BookingStarts, ac \in 1..EventTypes[e].max_attendees :
            LET slot == [start_time |-> st, end_time |-> st + EventTypes[e].duration]
                own == {b \in DOMAIN bookings :
                           /\ bookings[b].organizer = EventTypes[e].organizer
                           /\ bookings[b].event_type = e
                           /\ bookings[b].status = "confirmed"
                           /\ Overlaps(bookings[b], slot)}
            IN  _is_slot_available(bookings, e, slot.start_time, slot.end_time, ac)
                <=> (SumAttendees(bookings, own) + ac <= EventTypes[e].max_attendees)

\* the slots of sequence ss, as a set
SlotSet(ss) == {ss[i] : i \in 1..Len(ss)}

\* C11: for a single-attendee event type, a candidate slot of the grid of a
\* date is absent from the slots of that date iff a confirmed booking of
\* that organizer and event type overlaps it (half-open test); a booking
\* that only touches the slot, or is not confirmed, removes nothing.
C11_SlotAbsentIffOwnConfirmedOverlap ==
    \A e \in GridTypes : ~is_group_event(e) =>
        \A d \in Dates :
            LET candidates == SlotSet(_get_daily_slots(<<>>, e, "UTC", d, 1))
                result == SlotSet(_get_daily_slots(bookings, e, "UTC", d, 1))
            IN  \A slot \in candidates :
                    slot \notin result <=>
                        \E b \in DOMAIN bookings :
                            /\ bookings[b].organizer = EventTypes[e].organizer
                            /\ bookings[b].event_type = e
                            /\ bookings[b].status = "confirmed"
                            /\ Overlaps(bookings[b], slot)

\* a whole get_available_slots call has just returned
Called == ev.op = "call"

\* C12: when the cache lookup, the slot generation, the conflict check or
\* the handling of recurring exceptions raises inside get_available_slots,
\* the call returns slots == [], total_slots == 0, cache_hit == False and
\* an error message.
C12_FailureBecomesErrorResult ==
    (/\ Called /\ ev.raised
     /\ ev.fail_at \in {"cache_lookup", "slot_generation", "conflict_check",
                        "recurring_exceptions"}) =>
        /\ ev.result.slots = <<>>
        /\ ev.result.total_slots = 0
        /\ ~ev.result.cache_hit
        /\ ev.result.error # ""

\* C13: a call for an event type whose slot interval or duration is <= 0
\* returns an error and no slots.
C13_InvalidConfigurationFails ==
    (/\ Called
     /\ \/ EventTypes[ev.e].slot_interval_minutes <= 0
        \/ EventTypes[ev.e].duration <= 0) =>
        /\ ev.result.error # ""
        /\ ev.result.slots = <<>>

\* the intervals [s, s + duration) with s = working_start + k * interval and
\* s + duration <= working_end, in order of k
ExpectedGrid(e, tz, d) ==
    LET ws == Localize(tz, Combine(d, ProfileHours[EventTypes[e].organizer].reasonable_hours_start))
        we == Localize(tz, Combine(d, ProfileHours[EventTypes[e].organizer].reasonable_hours_end))
        dur == EventTypes[e].duration
        step == EventTypes[e].slot_interval_minutes
        n == IF ws + dur > we THEN 0 ELSE ((we - ws - dur) \div step) + 1
    IN  [k \in 1..n |-> <<ws + (k - 1) * step, ws + (k - 1) * step + dur>>]

\* C14: with no bookings, a call for one date of an event type with
\* positive duration and interval returns exactly the grid of the working
\* window; for duration 30, interval 30 and hours 09:00-17:00 that is 16
\* slots, from 09:00 to the one starting at 16:30.
C14_SlotsAreTheGrid ==
    (/\ Called /\ ev.result.error = "" /\ ~ev.result.cache_hit
     /\ ev.start_date = ev.end_date
     /\ DOMAIN bookings = {}
     /\ EventTypes[ev.e].slot_interval_minutes > 0
     /\ EventTypes[ev.e].duration > 0) =>
        LET slots == ev.result.slots
            d == ev.start_date
        IN  /\ [i \in 1..Len(slots) |-> <<slots[i].start_time, slots[i].end_time>>]
                   = ExpectedGrid(ev.e, ev.tz, d)
            /\ ev.e = "e7" =>
                   /\ Len(slots) = 16
                   /\ slots[1].start_time = Localize(ev.tz, Combine(d, 9))
                   /\ slots[16].start_time = Localize(ev.tz, Combine(d, 16)) + 30
            /\ ev.e = "e8" => slots = <<>>

\* the call of Scenario A returned its 16 slots, and a call for slots every
\* 15 minutes returned three
C14_Witness ==
    /\ Called /\ DOMAIN bookings = {} /\ ev.start_date = ev.end_date
    /\ \/ ev.e = "e7" /\ Len(ev.result.slots) = 16
       \/ ev.e = "e9" /\ Len(ev.result.slots) = 3

\* the step just taken was the cache write of a recomputation for key k
RecomputedKey(k) ==
    \/ /\ ev.op = "return" /\ ev.at = "write" /\ KeyOfCall(ev.call) = k
    \/ /\ Called /\ ev.use_cache /\ ~ev.result.cache_hit /\ KeyOfCall(ev) = k

\* C15: a dirty cache row is never deleted and stays dirty through every
\* step but the cache write of a get_available_slots(use_cache=True) call
\* that recomputed its key, which leaves expires_at = now + the timeout.
C15_DirtyUntilRecomputed ==
    [][\A k \in DOMAIN cache : cache[k].is_dirty =>
          /\ k \in DOMAIN cache'
          /\ ~cache'[k].is_dirty =>
                 /\ RecomputedKey(k)'
                 /\ cache'[k].expires_at = now' + CacheTimeout]_vars

\* a call has just rewritten a row that was dirty: it is clean again and
\* expires one timeout from now
C15_Witness ==
    /\ ev.op = "return" /\ ev.at = "write" /\ ev.was_dirty
    /\ Usable(KeyOfCall(ev.call), now)
    /\ cache[KeyOfCall(ev.call)].expires_at = now + CacheTimeout

\* the step just taken ran invalidate_availability_cache
Invalidated ==
    \/ ev.op = "on_commit" /\ ev.txn.invalidate_called
    \/ ev.op = "commit" /\ ev.txn.invalidate_called

\* C16: a step that runs invalidate_availability_cache leaves the set of
\* cache keys as it was and changes no field of a row other than is_dirty.
C16_InvalidationOnlySetsDirty ==
    [][Invalidated' =>
          /\ DOMAIN cache' = DOMAIN cache
          /\ \A k \in DOMAIN cache :
                 [cache'[k] EXCEPT !.is_dirty = cache[k].is_dirty] = cache[k]]_vars

\* an invalidation has just marked a row that holds slots
C16_Witness ==
    /\ Invalidated
    /\ \E k \in DOMAIN cache :
          /\ k.organizer = ev.txn.organizer
          /\ cache[k].is_dirty
          /\ cache[k].available_slots # <<>>

\* ss is strictly increasing in start_time
Chronological(ss) ==
    \A i \in 1..Len(ss), j \in 1..Len(ss) :
        i < j => ss[i].start_time < ss[j].start_time

\* C17: a call for a recurring event type applies every exception of the
\* range: no slot is dated the exception_date of a cancelled exception, and
\* a rescheduled exception with a new_start_time yields the slot
\* [new_start_time, new_start_time + duration).
C17_ExceptionsAreApplied ==
    (/\ Called /\ ~ev.raised /\ ~ev.use_cache
     /\ EventTypes[ev.e].recurrence_type # "none") =>
        \A x \in exceptions :
            (/\ x.event_type = ev.e
             /\ ev.start_date <= x.exception_date
             /\ x.exception_date <= ev.end_date) =>
                /\ x.exception_type = "cancelled" =>
                       \A slot \in SlotSet(ev.result.slots) :
                           DateOf(ev.tz, slot.start_time) # x.exception_date
                /\ (x.exception_type = "rescheduled" /\ x.new_start_time # 0) =>
                       \E slot \in SlotSet(ev.result.slots) :
                           /\ slot.start_time = x.new_start_time
                           /\ slot.end_time =
                                  x.new_start_time + EventTypes[ev.e].duration

\* C18: the slots of an uncached call are strictly increasing in
\* start_time, dated within [start_date, end_date], and what is left after
\* the recurring exceptions is a part of the computed sequence in its order.
C18_SlotsChronological ==
    (Called /\ ~ev.use_cache /\ ev.result.error = "") =>
        LET slots == ev.result.slots
            computed == _calculate_availability(bookings, ev.e, ev.tz,
                            ev.start_date, ev.end_date, ev.attendee_count)
        IN  /\ Chronological(slots)
            /\ \A i \in 1..Len(slots) :
                   /\ ev.start_date <= DateOf(ev.tz, slots[i].start_time)
                   /\ DateOf(ev.tz, slots[i].start_time) <= ev.end_date
            /\ Chronological(computed)
            /\ SlotSet(slots) \subseteq SlotSet(computed)

\* an uncached call over two dates of a recurring type with an exception in
\* the range and a booking of the organizer returned slots of both dates
C18_Witness ==
    /\ Called /\ ~ev.use_cache /\ ev.start_date < ev.end_date
    /\ ev.e = "e4" /\ exceptions # {} /\ DOMAIN bookings # {}
    /\ \E i \in 1..Len(ev.result.slots), j \in 1..Len(ev.result.slots) :
          DateOf(ev.tz, ev.result.slots[i].start_time)
              < DateOf(ev.tz, ev.result.slots[j].start_time)

\* C19: every usable cache row holds the slots of the bookings as they are
\* now: a row written by a call whose read of the bookings preceded an
\* invalidation of its organizer is not usable.
C19_NoUsableRowFromBeforeInvalidation ==
    \A k \in DOMAIN cache :
        Usable(k, now) =>
            cache[k].available_slots =
                ComputeSlots(bookings, k.event_type, k.timezone_name, k.date,
                             k.date, k.attendee_count)

\* C20: right after handle_booking_rescheduling has moved a booking of a
\* single-attendee event type to new_start_time and returned success, an
\* uncached query of that organizer and event type for that date has no
\* slot starting at new_start_time.
C20_RescheduledBookingOccupiesSlot ==
    (/\ ev.op = "reschedule" /\ ev.ok /\ ev.saved
     /\ ~is_group_event(bookings[ev.b].event_type)) =>
        LET d == DateOf("UTC", ev.new_start_time)
            slots == ComputeSlots(bookings, bookings[ev.b].event_type, "UTC",
                                  d, d, 1)
        IN  \A slot \in SlotSet(slots) : slot.start_time # ev.new_start_time

\* C21: a handle_booking_cancellation or handle_booking_rescheduling call
\* that returns (False, errors) leaves the Booking table as it was before
\* the call wrote anything: status, start_time and end_time of every row
\* are unchanged by the step that returns the failure.
C21_FailureLeavesBookingUnchanged ==
    [][(ev'.op \in {"cancel", "reschedule"} /\ ~ev'.ok) =>
          bookings' = bookings]_vars

\* C22: right after the on_commit invalidation of a blocked-time mutation
\* of organizer O with dates [d1, d2], no usable cache row of O holds a
\* slot dated in [d1, d2].
C22_NoUsableSlotInInvalidatedRange ==
    (/\ ev.op = "on_commit" /\ ev.txn.kind = "blocked_time"
     /\ ev.txn.start_date # 0 /\ ev.txn.end_date # 0) =>
        \A k \in DOMAIN cache :
            (k.organizer = ev.txn.organizer /\ Usable(k, now)) =>
                \A slot \in SlotSet(cache[k].available_slots) :
                    LET d == DateOf(k.timezone_name, slot.start_time)
                    IN  ~(ev.txn.start_date <= d /\ d <= ev.txn.end_date)

\* C23: get_available_slots terminates for every date range and for every
\* configuration of duration and slot interval, zero and negative values
\* included: a call that has begun returns; and a call whose start_date is
\* after its end_date yields no slots.
C23_TerminatesAndReversedRangeIsEmpty ==
    /\ (run.pc # "idle") ~> (run.pc = "idle")
    /\ []((ev.op = "run_return" /\ ev.start_date > ev.end_date) =>
              ev.result.slots = <<>>)

\* C24: a process_account_deletion run deletes a user only while its
\* account_status is pending_deletion, a run that finds no pending user
\* deletes nothing, no row is deleted twice, and no run raises.
C24_DeletedOnlyWhilePending ==
    ev.op = "deletion" =>
        /\ ~ev.raised
        /\ ev.rows_deleted <= 1
        /\ ~ev.found => ev.rows_deleted = 0
        /\ ev.rows_deleted > 0 => ev.status_at_delete = "pending_deletion"

====
